---- MODULE Spec2Model ----
(***************************************************************************)
(* The example API-route handlers of example-fixes.js and of the payload   *)
(* guide (offset pagination, field exclusion, server-side filtering, the   *)
(* complete paginated route, cursor pagination, the response-size helper), *)
(* run against a Firestore-like collection `items`.                        *)
(*                                                                         *)
(* One client's request is in flight at a time; a second client may send  *)
(* one alongside it (the pair).  A handler is a sequence of steps          *)
(* separated by its awaits: the step that receives the request runs up to  *)
(* the first source call, and every later step consumes the answer of the  *)
(* pending source call (a result read from the collection at that moment,  *)
(* or a failure) and runs up to the next await or to the response.         *)
(* Another client may write to the collection between any two steps.       *)
(***************************************************************************)
EXTENDS Integers, Sequences, FiniteSets, TLC

\* ------------------------------------------------------------------ bounds
MaxDocs == 3          \* documents in a small collection
MaxWrites == 1        \* writes by other clients during a run

\* ------------------------------------------------------- program constants
DefaultPage == 1      \* const { page = 1, ... } = req.query
DefaultLimit == 50    \* const { ..., limit = 50 } = req.query
TruncLen == 200       \* data.description?.substring(0, 200)
BytesPerMB == 1048576 \* sizeInBytes / (1024 * 1024)
WarnTenthsMB == 45    \* if (sizeInMB > 4.5), in tenths of a MB

\* ------------------------------------------------------------ JS numbers
\* A JavaScript number as the handlers meet it: an integer, or NaN / an
\* infinity (both serialised as null by JSON.stringify).
Num(n) == [nan |-> FALSE, n |-> n]
NaN == [nan |-> TRUE, n |-> 0]

\* ------------------------------------------------------ req.query values
\* A query-string parameter is absent or a string (a sequence of characters).
Absent == [given |-> FALSE, s |-> <<>>]
Str(s) == [given |-> TRUE, s |-> s]

DigitChars == {"0", "1", "2", "3", "4", "5", "6", "7", "8", "9"}

DigitVal(c) ==
  CASE c = "0" -> 0 [] c = "1" -> 1 [] c = "2" -> 2 [] c = "3" -> 3
    [] c = "4" -> 4 [] c = "5" -> 5 [] c = "6" -> 6 [] c = "7" -> 7
    [] c = "8" -> 8 [] c = "9" -> 9

\* Length of the longest prefix of s (from position i) made of digits.
RECURSIVE DigitRun(_, _)
DigitRun(s, i) ==
  IF i > Len(s) \/ s[i] \notin DigitChars THEN 0 ELSE 1 + DigitRun(s, i + 1)

\* Value of the digits s[i .. i+k-1].
RECURSIVE DigitsValue(_, _, _)
DigitsValue(s, i, k) ==
  IF k = 0 THEN 0 ELSE DigitsValue(s, i, k - 1) * 10 + DigitVal(s[i + k - 1])

\* parseInt(string): optional sign, then the longest run of digits; what
\* follows the digits is ignored; NaN when there is no digit.
ParseIntStr(s) ==
  LET neg == Len(s) > 0 /\ s[1] = "-"
      from == IF neg THEN 2 ELSE 1
      k == DigitRun(s, from)
  IN IF k = 0 THEN NaN
     ELSE Num((IF neg THEN -1 ELSE 1) * DigitsValue(s, from, k))

\* Number(string), the coercion of `page - 1`: the whole string must be a
\* number ("" is 0); anything else is NaN.
ToNumberStr(s) ==
  LET neg == Len(s) > 0 /\ s[1] = "-"
      from == IF neg THEN 2 ELSE 1
      k == DigitRun(s, from)
  IN IF Len(s) = 0 THEN Num(0)
     ELSE IF k = 0 \/ from + k - 1 # Len(s) THEN NaN
     ELSE Num((IF neg THEN -1 ELSE 1) * DigitsValue(s, from, k))

\* parseInt(x) where x is the destructured parameter with default d.
ParseIntQ(q, d) == IF q.given THEN ParseIntStr(q.s) ELSE Num(d)

\* Number(x) where x is the destructured parameter with default d.
ToNumberQ(q, d) == IF q.given THEN ToNumberStr(q.s) ELSE Num(d)

Min(a, b) == IF a < b THEN a ELSE b

Sub(a, b) == IF a.nan \/ b.nan THEN NaN ELSE Num(a.n - b.n)
Mul(a, b) == IF a.nan \/ b.nan THEN NaN ELSE Num(a.n * b.n)
\* a < b and a === b on numbers: false whenever a NaN is involved.
Less(a, b) == ~a.nan /\ ~b.nan /\ a.n < b.n
StrictEq(a, b) == ~a.nan /\ ~b.nan /\ a.n = b.n
\* Mutant of CeilDiv: Math.floor in place of Math.ceil.
FloorDiv(a, b) ==
  IF a.nan \/ b.nan \/ b.n = 0 THEN NaN
  ELSE IF b.n > 0 THEN Num(a.n \div b.n)
  ELSE Num(-((a.n + (-b.n) - 1) \div (-b.n)))

\* Math.ceil(a / b) for a >= 0: Infinity or NaN when b is 0 or not a number.
CeilDiv(a, b) ==
  IF a.nan \/ b.nan \/ b.n = 0 THEN NaN
  ELSE IF b.n > 0 THEN Num((a.n + b.n - 1) \div b.n)
  ELSE Num(-(a.n \div (-b.n)))

\* The decimal string of a small non-negative integer (the client's page).
DigitChar(d) ==
  CASE d = 0 -> "0" [] d = 1 -> "1" [] d = 2 -> "2" [] d = 3 -> "3"
    [] d = 4 -> "4" [] d = 5 -> "5" [] d = 6 -> "6" [] d = 7 -> "7"
    [] d = 8 -> "8" [] d = 9 -> "9"

RECURSIVE IntToStr(_)
IntToStr(n) ==
  IF n < 10 THEN <<DigitChar(n)>>
  ELSE Append(IntToStr(n \div 10), DigitChar(n % 10))

\* ------------------------------------------------------------- documents
\* The data of a document of the collection `items`: a mapping from field
\* name to value.  Text that the handlers cut (description) is given as the
\* characters from..to-1 of a named source text; other values are opaque.
Text(src, n) == [src |-> src, from |-> 0, to |-> n]
TextLen(t) == t.to - t.from

DocPlain ==
  [name |-> "ring", status |-> "active", category |-> "keys", createdAt |-> 1,
   location |-> "hall", imageUrl |-> "https://img/1", description |-> Text("short", 3)]

DocHeavy ==
  [name |-> "phone", status |-> "archived", category |-> "phone",
   createdAt |-> 2, imageUrl |-> "https://img/2", base64Image |-> "<base64>",
   fullDescription |-> "<long text>", pdfData |-> "<pdf>",
   description |-> Text("long", TruncLen + 1)]

DocBare == [name |-> "x", image |-> "<huge-base64>", imageUrl |-> "https://..."]

DocKinds == {DocPlain, DocHeavy, DocBare}

\* Collections of at most MaxDocs documents; document ids are 1..Len.
RECURSIVE SeqsUpTo(_, _)
SeqsUpTo(S, n) ==
  IF n = 0 THEN {<<>>}
  ELSE LET shorter == SeqsUpTo(S, n - 1)
       IN shorter \cup {Append(q, x) : q \in {r \in shorter : Len(r) = n - 1}, x \in S}

SmallDbs == SeqsUpTo(DocKinds, MaxDocs)

\* The collection of the pagination scenario: 120 documents that every
\* handler's filters match.
ScenarioDb == [i \in 1..120 |-> DocPlain]

\* ------------------------------------------------- the backing source (db)
\* A query built by the handlers: equality filters, an order, a limit, an
\* offset and a startAfter cursor.
NoAfter == [on |-> FALSE, createdAt |-> 0, id |-> 0]

Query(filters, order, limit, offset, after) ==
  [kind |-> "query", filters |-> filters, order |-> order, hasLimit |-> TRUE,
   limit |-> limit, offset |-> offset, after |-> after, id |-> 0]

\* db.collection('items').where(...).get(): no limit, no offset.
CountQuery(filters) ==
  [kind |-> "query", filters |-> filters, order |-> "name", hasLimit |-> FALSE,
   limit |-> Num(0), offset |-> Num(0), after |-> NoAfter, id |-> 0]

\* db.collection('items').doc(id).get()
DocGet(id) ==
  [kind |-> "doc", filters |-> {}, order |-> "name", hasLimit |-> FALSE,
   limit |-> Num(0), offset |-> Num(0), after |-> NoAfter, id |-> id]

\* getData(): the data call of the size-check route.
DataCall ==
  [kind |-> "data", filters |-> {}, order |-> "name", hasLimit |-> FALSE,
   limit |-> Num(0), offset |-> Num(0), after |-> NoAfter, id |-> 0]

\* The source rejects a limit or an offset that is not a non-negative integer.
ValidQuery(q) ==
  /\ q.hasLimit => (~q.limit.nan /\ q.limit.n >= 0)
  /\ ~q.offset.nan /\ q.offset.n >= 0

\* where(field, '==', value): the document has the field with that value.
Matches(data, filters) ==
  \A f \in filters : f[1] \in DOMAIN data /\ data[f[1]] = f[2]

\* The position of document i in the query's order.  Without orderBy the
\* order is by document id; orderBy('createdAt') orders by createdAt, ties
\* broken by document id in the same direction.
OrderKey(d, i, order) ==
  CASE order = "name" -> i
    [] order = "createdAtAsc" -> d[i].createdAt * (Len(d) + 1) + i
    [] order = "createdAtDesc" -> -(d[i].createdAt * (Len(d) + 1) + i)

CursorKey(d, after, order) ==
  CASE order = "name" -> after.id
    [] order = "createdAtAsc" -> after.createdAt * (Len(d) + 1) + after.id
    [] order = "createdAtDesc" -> -(after.createdAt * (Len(d) + 1) + after.id)

\* The documents a query selects: those matching every filter, holding the
\* orderBy field, and placed after the cursor.
Selects(d, q, i) ==
  /\ Matches(d[i], q.filters)
  /\ q.order # "name" => "createdAt" \in DOMAIN d[i]
  /\ q.after.on => OrderKey(d, i, q.order) > CursorKey(d, q.after, q.order)

\* Their ids in the query's order.
Ordered(d, q) ==
  LET Picked(i) == Selects(d, q, i)
      Before(i, j) == OrderKey(d, i, q.order) < OrderKey(d, j, q.order)
  IN SortSeq(SelectSeq([i \in 1..Len(d) |-> i], Picked), Before)

\* Mutant of Window: the record at the offset is skipped as well.
WindowSkippingOne(ids, q) ==
  LET from == q.offset.n + 2
      to == IF q.hasLimit THEN Min(Len(ids), q.offset.n + q.limit.n) ELSE Len(ids)
  IN SubSeq(ids, from, to)

\* offset(n) then limit(n) over the ordered selection.
Window(ids, q) ==
  LET from == q.offset.n + 1
      to == IF q.hasLimit THEN Min(Len(ids), q.offset.n + q.limit.n) ELSE Len(ids)
  IN SubSeq(ids, from, to)

Snapshot(d, i) == [id |-> i, data |-> d[i]]

\* query.get(): the snapshot's docs, in order.
RunQuery(d, q) ==
  LET ids == Window(Ordered(d, q), q)
  IN [k \in 1..Len(ids) |-> Snapshot(d, ids[k])]

\* -------------------------------------------------------- response items
\* The value an object literal of a handler gives to a listed field.
FieldDefined(doc, f) ==
  CASE f = "id" -> TRUE
    [] f = "shortDescription" -> "description" \in DOMAIN doc.data
    [] OTHER -> f \in DOMAIN doc.data

\* text.substring(a, b) for 0 <= a <= b: both ends are clamped to the length.
Substring(t, a, b) ==
  [src |-> t.src, from |-> t.from + Min(a, TextLen(t)), to |-> t.from + Min(b, TextLen(t))]

\* Mutant of Truncate: the last 200 characters are kept.
TruncateKeepingEnd(text) == Substring(text, TextLen(text) - Min(TruncLen, TextLen(text)), TextLen(text))

\* description?.substring(0, 200)
Truncate(text) == Substring(text, 0, TruncLen)

FieldValue(doc, f) ==
  CASE f = "id" -> doc.id
    [] f = "shortDescription" -> Truncate(doc.data.description)
    [] OTHER -> doc.data[f]

\* Mutant of Project: the literal also spreads ...doc.data().
ProjectSpreading(doc, fields) ==
  [f \in {g \in fields : FieldDefined(doc, g)} \cup DOMAIN doc.data |->
     IF f \in DOMAIN doc.data THEN doc.data[f] ELSE FieldValue(doc, f)]

\* An object literal listing `fields`, as res.json serialises it: a listed
\* field whose value is undefined is not written.
Project(doc, fields) ==
  [f \in {g \in fields : FieldDefined(doc, g)} |-> FieldValue(doc, f)]

\* { id: doc.id, ...doc.data() }
SpreadWithId(doc) ==
  [f \in {"id"} \cup DOMAIN doc.data |->
     IF f \in DOMAIN doc.data THEN doc.data[f] ELSE doc.id]

\* doc.data()
DataOnly(doc) == doc.data

Good2Fields == {"id", "name", "category", "imageUrl", "shortDescription"}
CompleteFields == {"id", "name", "category", "location", "createdAt", "imageUrl"}

\* ------------------------------------------------------------- responses
NoResp == [kind |-> "none", status |-> 0, body |-> <<>>]
\* res.status(status).json(body)
Json(status, body) == [kind |-> "json", status |-> status, body |-> body]
\* The handler's promise rejects: an error thrown outside any try block.
Rejected == [kind |-> "rejected", status |-> 0, body |-> <<>>]

\* -------------------------------------------------------------- requests
AbsentText == [given |-> FALSE, s |-> ""]
NoCursor == [given |-> FALSE, id |-> 0]

Request(handler, method, page, limit, category, status, cursor) ==
  [handler |-> handler, method |-> method, page |-> page, limit |-> limit,
   category |-> category, status |-> status, cursor |-> cursor]

PageVals == {Absent, Str(<<"2">>), Str(<<"0">>)}
LimitVals == {Absent, Str(<<"1">>), Str(<<"2">>), Str(<<"0">>)}
BigLimitVals == LimitVals \cup {Str(<<"5", "0", "0">>)}
CategoryVals == {AbsentText, [given |-> TRUE, s |-> "keys"]}
StatusVals == {AbsentText, [given |-> TRUE, s |-> "archived"]}
CursorVals == {NoCursor} \cup {[given |-> TRUE, id |-> i] : i \in {1, 2, MaxDocs + 1}}

Good1Requests ==
  {Request("good1", "GET", p, l, AbsentText, AbsentText, NoCursor) :
     p \in PageVals, l \in BigLimitVals}
Good2Requests ==
  {Request("good2", "GET", p, l, AbsentText, AbsentText, NoCursor) :
     p \in PageVals, l \in LimitVals}
Good3Requests ==
  {Request("good3", "GET", Absent, l, c, s, NoCursor) :
     l \in LimitVals, c \in CategoryVals, s \in StatusVals}
CompleteRequests ==
  {Request("complete", "GET", p, l, c, s, NoCursor) :
     p \in PageVals, l \in LimitVals, c \in CategoryVals, s \in StatusVals}
  \cup {Request("complete", "POST", Absent, Absent, AbsentText, AbsentText, NoCursor)}
CursorRequests ==
  {Request("cursor", "GET", p, l, AbsentText, AbsentText, c) :
     p \in {Absent, Str(<<"1">>)}, l \in {Absent, Str(<<"1">>), Str(<<"2">>)},
     c \in CursorVals}

\* The guide's Approach 1 handler, the streaming route and the Pages Router
\* route take these.
Approach1Requests ==
  {Request("approach1", "GET", p, l, AbsentText, AbsentText, NoCursor) :
     p \in PageVals, l \in {Absent, Str(<<"2">>)}}
StreamingRequest ==
  Request("streaming", "GET", Absent, Absent, AbsentText, AbsentText, NoCursor)
PagesRouterRequests ==
  {Request("pages", m, Absent, Absent, AbsentText, AbsentText, NoCursor) :
     m \in {"GET", "POST", "DELETE"}}

\* The requests two clients send at the same time.
PairRequests ==
  {Request(h, "GET", p, Str(<<"1">>), AbsentText, AbsentText, NoCursor) :
     h \in {"good1", "complete"}, p \in {Absent, Str(<<"2">>)}}

\* ------------------------------------------------------------------ state
VARIABLES
  db,       \* the collection `items`: document id -> data
  writes,   \* writes by other clients since the current exchange began
  req,      \* the request being served
  pc,       \* where the handler serving it stands
  calls,    \* the source calls the handler has issued for it, in order
  snap,     \* the handler's local `snapshot.docs`
  resp,     \* what the handler returned
  console,  \* what the handler wrote to the console
  mode,     \* what the client is doing: "free", "repeat", "walk", "walked",
            \*   "pair", "cursorwalk", "cursorwalked"
  first,    \* repeat: the response to the first of the two identical requests,
            \*         with what its handler wrote to the console
  acc,      \* walk: the ids of the items of the pages fetched so far
  wpage,    \* walk: the page to ask for next
  peer      \* pair: the invocation serving the second client's request, with
            \*       its own req, pc, calls, snap (locals) and resp

vars ==
  <<db, writes, req, pc, calls, snap, resp, console, mode, first, acc, wpage, peer>>

\* Nothing logged: no size line, no warning, no error line.
Quiet == [logged |-> -1, warned |-> FALSE, errors |-> 0]

NoRequest == Request("none", "GET", Absent, Absent, AbsentText, AbsentText, NoCursor)

\* No second invocation.
NoPeer == [req |-> NoRequest, pc |-> "idle", calls |-> <<>>, snap |-> <<>>, resp |-> NoResp]

Init ==
  /\ db \in SmallDbs \cup {ScenarioDb}
  /\ writes = 0
  /\ req = NoRequest
  /\ pc = "idle"
  /\ calls = <<>>
  /\ snap = <<>>
  /\ resp = NoResp
  /\ console = Quiet
  /\ mode = "free"
  /\ first = NoResp
  /\ acc = <<>>
  /\ wpage = 0
  /\ peer = NoPeer

\* The requests the client may send now: any request when it is free, the
\* one its repetition or its walk calls for otherwise.
AllRequests ==
  Good1Requests \cup Good2Requests \cup Good3Requests \cup CompleteRequests
    \cup CursorRequests \cup {Request("sizecheck", "GET", Absent, Absent,
                                      AbsentText, AbsentText, NoCursor)}
    \cup Approach1Requests \cup {StreamingRequest} \cup PagesRouterRequests

Offered ==
  CASE mode = "free" /\ pc = "idle" -> AllRequests
    [] mode = "repeat" /\ pc = "idle" -> {req}
    [] mode = "walk" /\ pc = "idle" ->
         {[req EXCEPT !.page = Str(IntToStr(wpage))]}
    [] mode = "pair" /\ pc = "idle" -> PairRequests
    [] mode = "cursorwalk" /\ pc = "idle" -> {req}
    [] OTHER -> {}

\* The part of the state every first step of a handler sets.
Begin(q) ==
  /\ req' = q
  /\ snap' = <<>>
  /\ console' = Quiet
  /\ writes' = IF mode = "free" THEN 0 ELSE writes
  /\ UNCHANGED <<db, mode, first, acc, wpage, peer>>

\* The part of the state no later step of a handler touches.
Frame == UNCHANGED <<db, writes, req, mode, first, acc, wpage, peer>>

Last(s) == s[Len(s)]

\* ------------------------------------------- handler_good_example_1
\* example-fixes.js:20-40
\* Mutant of Good1Query: the .limit() call is left out.
Good1QueryUnlimited(q) ==
  LET limit == ParseIntQ(q.limit, DefaultLimit)
      offset == Mul(Sub(ToNumberQ(q.page, DefaultPage), Num(1)), limit)
  IN [Query({}, "name", limit, offset, NoAfter) EXCEPT !.hasLimit = FALSE]

Good1Query(q) ==
  LET limit == ParseIntQ(q.limit, DefaultLimit)
      offset == Mul(Sub(ToNumberQ(q.page, DefaultPage), Num(1)), limit)
  IN Query({}, "name", limit, offset, NoAfter)

\* Mutant of Good1HasMore: snapshot.size > limit.
Good1HasMoreStrict(docs, q) == Less(ParseIntQ(q.limit, DefaultLimit), Num(Len(docs)))

\* Mutant of Good1HasMore: any item at all means more.
Good1HasMoreAny(docs, q) == Len(docs) > 0

Good1HasMore(docs, q) == StrictEq(Num(Len(docs)), ParseIntQ(q.limit, DefaultLimit))

Good1Body(docs, q) ==
  [items |-> [k \in 1..Len(docs) |-> SpreadWithId(docs[k])],
   page |-> ParseIntQ(q.page, DefaultPage),
   limit |-> ParseIntQ(q.limit, DefaultLimit),
   hasMore |-> Good1HasMore(docs, q)]

Good1Receive ==
  \E q \in Offered :
    /\ q.handler = "good1"
    /\ Begin(q)
    /\ calls' = <<Good1Query(q)>>
    /\ pc' = "g1_page"
    /\ resp' = NoResp

\* The awaited get() settles; a failure is not caught.
Good1Respond ==
  /\ pc = "g1_page"
  /\ \E ok \in BOOLEAN :
       resp' = IF ok /\ ValidQuery(Last(calls))
               THEN Json(200, Good1Body(RunQuery(db, Last(calls)), req))
               ELSE Rejected
  /\ pc' = "done"
  /\ UNCHANGED <<calls, snap, console>>
  /\ Frame

\* ------------------------------------------- handler_good_example_2
\* example-fixes.js:58-78
\* Mutant of Good2Query: the offset is kept in a module-level variable and
\* carries on from the items of the previous answer.
Good2QueryResuming(q) ==
  LET limit == ParseIntQ(q.limit, DefaultLimit)
      offset == Mul(Sub(ToNumberQ(q.page, DefaultPage), Num(1)), limit)
      seen == IF first.kind = "json" THEN Len(first.body.items) ELSE 0
  IN Query({}, "name", limit, IF offset.nan THEN offset ELSE Num(offset.n + seen), NoAfter)

Good2Query(q) ==
  LET limit == ParseIntQ(q.limit, DefaultLimit)
      offset == Mul(Sub(ToNumberQ(q.page, DefaultPage), Num(1)), limit)
  IN Query({}, "name", limit, offset, NoAfter)

Good2Body(docs, q) ==
  [items |-> [k \in 1..Len(docs) |-> Project(docs[k], Good2Fields)],
   page |-> ParseIntQ(q.page, DefaultPage)]

Good2Receive ==
  \E q \in Offered :
    /\ q.handler = "good2"
    /\ Begin(q)
    /\ calls' = <<Good2Query(q)>>
    /\ pc' = "g2_page"
    /\ resp' = NoResp

Good2Respond ==
  /\ pc = "g2_page"
  /\ \E ok \in BOOLEAN :
       resp' = IF ok /\ ValidQuery(Last(calls))
               THEN Json(200, Good2Body(RunQuery(db, Last(calls)), req))
               ELSE Rejected
  /\ pc' = "done"
  /\ UNCHANGED <<calls, snap, console>>
  /\ Frame

\* ------------------------------------------- handler_good_example_3
\* example-fixes.js:91-107
\* A query-string value is truthy when it is given and not empty.
Truthy(v) == v.given /\ v.s # ""

Good3Query(q) ==
  LET status == IF Truthy(q.status) THEN q.status.s ELSE "active"
      filters == {<<"status", status>>}
                   \cup (IF Truthy(q.category)
                         THEN {<<"category", q.category.s>>} ELSE {})
  IN Query(filters, "createdAtDesc", ParseIntQ(q.limit, DefaultLimit), Num(0), NoAfter)

Good3Body(docs) == [items |-> [k \in 1..Len(docs) |-> DataOnly(docs[k])]]

Good3Receive ==
  \E q \in Offered :
    /\ q.handler = "good3"
    /\ Begin(q)
    /\ calls' = <<Good3Query(q)>>
    /\ pc' = "g3_page"
    /\ resp' = NoResp

Good3Respond ==
  /\ pc = "g3_page"
  /\ \E ok \in BOOLEAN :
       resp' = IF ok /\ ValidQuery(Last(calls))
               THEN Json(200, Good3Body(RunQuery(db, Last(calls))))
               ELSE Rejected
  /\ pc' = "done"
  /\ UNCHANGED <<calls, snap, console>>
  /\ Frame

\* ------------------------------- the complete paginated route (handler)
\* example-fixes.js:314-376
CompleteStatus(q) == IF q.status.given THEN q.status.s ELSE "active"

\* Mutant of CompleteQuery: the offset is page * limit.
CompleteQueryPageOffset(q) ==
  LET limit == ParseIntQ(q.limit, DefaultLimit)
      offset == Mul(ParseIntQ(q.page, DefaultPage), limit)
      filters == {<<"status", CompleteStatus(q)>>}
                   \cup (IF Truthy(q.category)
                         THEN {<<"category", q.category.s>>} ELSE {})
  IN Query(filters, "createdAtDesc", limit, offset, NoAfter)

CompleteQuery(q) ==
  LET limit == ParseIntQ(q.limit, DefaultLimit)
      offset == Mul(Sub(ParseIntQ(q.page, DefaultPage), Num(1)), limit)
      filters == {<<"status", CompleteStatus(q)>>}
                   \cup (IF Truthy(q.category)
                         THEN {<<"category", q.category.s>>} ELSE {})
  IN Query(filters, "createdAtDesc", limit, offset, NoAfter)

\* The query of `totalSnapshot`.
CompleteTotalQuery(q) == CountQuery({<<"status", CompleteStatus(q)>>})

CompleteHasMore(total, q) ==
  Less(Mul(ParseIntQ(q.page, DefaultPage), ParseIntQ(q.limit, DefaultLimit)),
       Num(total))

CompleteBody(docs, total, q) ==
  [items |-> [k \in 1..Len(docs) |-> Project(docs[k], CompleteFields)],
   pagination |->
     [page |-> ParseIntQ(q.page, DefaultPage),
      limit |-> ParseIntQ(q.limit, DefaultLimit),
      total |-> total,
      totalPages |-> CeilDiv(Num(total), ParseIntQ(q.limit, DefaultLimit)),
      hasMore |-> CompleteHasMore(total, q)]]

MethodNotAllowed == Json(405, [error |-> "Method not allowed"])
InternalError == Json(500, [error |-> "Internal server error"])

\* Mutant of CompleteReceive: the method is not looked at.
CompleteReceiveAnyMethod ==
  \E q \in Offered :
    /\ q.handler = "complete"
    /\ Begin(q)
    /\ calls' = <<CompleteQuery(q)>>
    /\ pc' = "c_page"
    /\ resp' = NoResp

CompleteReceive ==
  \E q \in Offered :
    /\ q.handler = "complete"
    /\ Begin(q)
    /\ IF q.method # "GET"
       THEN /\ calls' = <<>>
            /\ pc' = "done"
            /\ resp' = MethodNotAllowed
       ELSE /\ calls' = <<CompleteQuery(q)>>
            /\ pc' = "c_page"
            /\ resp' = NoResp

\* Mutant of CompletePage: a failed page query is sent once more.
CompletePageRetrying ==
  /\ pc = "c_page"
  /\ \E ok \in BOOLEAN :
       IF ok /\ ValidQuery(Last(calls))
       THEN /\ snap' = RunQuery(db, Last(calls))
            /\ calls' = Append(calls, CompleteTotalQuery(req))
            /\ pc' = "c_count"
            /\ UNCHANGED <<resp, console>>
       ELSE IF Len(calls) < 2
       THEN /\ calls' = Append(calls, Last(calls))
            /\ UNCHANGED <<resp, console, pc, snap>>
       ELSE /\ resp' = InternalError
            /\ console' = [console EXCEPT !.errors = @ + 1]
            /\ pc' = "done"
            /\ snap' = <<>>
            /\ UNCHANGED calls
  /\ Frame

\* `await query.get()` settles: on success the items are in hand and the
\* total query is issued; a failure is caught, logged and answered with 500.
CompletePage ==
  /\ pc = "c_page"
  /\ \E ok \in BOOLEAN :
       IF ok /\ ValidQuery(Last(calls))
       THEN /\ snap' = RunQuery(db, Last(calls))
            /\ calls' = Append(calls, CompleteTotalQuery(req))
            /\ pc' = "c_count"
            /\ UNCHANGED <<resp, console>>
       ELSE /\ resp' = InternalError
            /\ console' = [console EXCEPT !.errors = @ + 1]
            /\ pc' = "done"
            /\ snap' = <<>>
            /\ UNCHANGED calls
  /\ Frame

\* The total query settles.
CompleteCount ==
  /\ pc = "c_count"
  /\ \E ok \in BOOLEAN :
       IF ok
       THEN /\ resp' = Json(200, CompleteBody(snap, Len(RunQuery(db, Last(calls))), req))
            /\ UNCHANGED console
       ELSE /\ resp' = InternalError
            /\ console' = [console EXCEPT !.errors = @ + 1]
  /\ pc' = "done"
  /\ snap' = <<>>
  /\ UNCHANGED calls
  /\ Frame

\* ------------------------------------- cursor-based pagination (handler)
\* the payload guide, Approach 2
CursorQuery(q, after) ==
  Query({}, "createdAtAsc", ParseIntQ(q.limit, DefaultLimit), Num(0), after)

\* Mutant of NextCursor: the id of the first document of the page.
NextCursorOfFirst(docs) ==
  IF Len(docs) > 0 THEN [given |-> TRUE, id |-> docs[1].id] ELSE NoCursor

\* nextCursor: lastDoc ? lastDoc.id : null
NextCursor(docs) ==
  IF Len(docs) > 0 THEN [given |-> TRUE, id |-> Last(docs).id] ELSE NoCursor

CursorBody(docs) ==
  [items |-> [k \in 1..Len(docs) |-> DataOnly(docs[k])],
   nextCursor |-> NextCursor(docs)]

CursorReceive ==
  \E q \in Offered :
    /\ q.handler = "cursor"
    /\ Begin(q)
    /\ resp' = NoResp
    /\ IF q.cursor.given
       THEN /\ calls' = <<DocGet(q.cursor.id)>>
            /\ pc' = "cur_doc"
       ELSE /\ calls' = <<CursorQuery(q, NoAfter)>>
            /\ pc' = "cur_page"

\* The cursor document is read; startAfter(cursorDoc) needs the document's
\* createdAt and throws when the document does not exist or has none.
CursorDoc ==
  /\ pc = "cur_doc"
  /\ \E ok \in BOOLEAN :
       LET id == Last(calls).id
           usable == id \in DOMAIN db /\ "createdAt" \in DOMAIN db[id]
       IN IF ok /\ usable
          THEN /\ calls' = Append(calls,
                    CursorQuery(req, [on |-> TRUE, createdAt |-> db[id].createdAt,
                                      id |-> id]))
               /\ pc' = "cur_page"
               /\ UNCHANGED resp
          ELSE /\ resp' = Rejected
               /\ pc' = "done"
               /\ UNCHANGED calls
  /\ UNCHANGED <<snap, console>>
  /\ Frame

CursorPage ==
  /\ pc = "cur_page"
  /\ \E ok \in BOOLEAN :
       resp' = IF ok /\ ValidQuery(Last(calls))
               THEN Json(200, CursorBody(RunQuery(db, Last(calls))))
               ELSE Rejected
  /\ pc' = "done"
  /\ UNCHANGED <<calls, snap, console>>
  /\ Frame

\* ------------------------------------------ checkResponseSize and its route
\* example-fixes.js:287-307
\* The data of the size-check route: an array of strings.  A string is
\* given by how many of its characters are plain ASCII, how many are double
\* quotes (escaped by JSON.stringify) and how many take three bytes in UTF-8.
Chars(ascii, quotes, wide) == [ascii |-> ascii, quotes |-> quotes, wide |-> wide]

OneString(n) == <<Chars(n, 0, 0)>>

Payloads ==
  {<<>>, <<Chars(3, 0, 0)>>, <<Chars(3, 0, 0), Chars(0, 0, 0)>>,
   <<Chars(1, 1, 1), Chars(0, 0, 2)>>,
   OneString(4499996), OneString(4499997), OneString(4718588),
   OneString(4718589), OneString(4999996)}

\* JSON.stringify of a string: the characters between two quotes, each
\* inner quote preceded by a backslash.
StringifyString(c) == Chars(c.ascii + 2 * c.quotes + 2, 0, c.wide)

\* Mutant of JoinItems: only the last item is written.
JoinItemsLast(data, k) ==
  IF k = 0 THEN Chars(0, 0, 0)
  ELSE LET item == StringifyString(data[k])
       IN Chars(item.ascii, 0, item.wide)

RECURSIVE JoinItems(_, _)
JoinItems(data, k) ==
  IF k = 0 THEN Chars(0, 0, 0)
  ELSE LET rest == JoinItems(data, k - 1)
           item == StringifyString(data[k])
           comma == IF k > 1 THEN 1 ELSE 0
       IN Chars(rest.ascii + comma + item.ascii, 0, rest.wide + item.wide)

\* JSON.stringify of the array: [ item , item ... ]
JsonStringify(data) ==
  LET inner == JoinItems(data, Len(data))
  IN Chars(inner.ascii + 2, 0, inner.wide)

\* Buffer.byteLength(jsonString, 'utf8')
ByteLength(str) == str.ascii + 3 * str.wide

\* sizeInMB.toFixed(2), in hundredths of a MB.
ToFixed2(bytes) == (bytes * 200 + BytesPerMB) \div (2 * BytesPerMB)

\* Mutant of Exceeds: the threshold is 5 MB.
ExceedsFiveMB(bytes) == bytes * 10 > 50 * BytesPerMB

\* sizeInMB > 4.5, with sizeInMB = sizeInBytes / (1024 * 1024)
Exceeds(bytes) == bytes * 10 > WarnTenthsMB * BytesPerMB

\* Mutant of CheckResponseSize: the sizes add up in a module-level total,
\* carried over from the call of the previous exchange.
CheckResponseSizeAdding(data) ==
  LET before == IF first.kind = "json" THEN ByteLength(JsonStringify(first.body)) ELSE 0
      sizeInBytes == ByteLength(JsonStringify(data)) + before
  IN [logged |-> ToFixed2(sizeInBytes), warned |-> Exceeds(sizeInBytes), errors |-> 0]

\* What checkResponseSize(data) leaves on the console.
CheckResponseSize(data) ==
  LET sizeInBytes == ByteLength(JsonStringify(data))
  IN [logged |-> ToFixed2(sizeInBytes), warned |-> Exceeds(sizeInBytes), errors |-> 0]

\* The value checkResponseSize(data) returns, sizeInMB, as the byte count it
\* is the exact quotient of.
SizeInBytes(data) == ByteLength(JsonStringify(data))

\* Mutant of SizeCheckBody: data over the threshold is answered empty.
SizeCheckBodyShrinking(data) == IF Exceeds(SizeInBytes(data)) THEN <<>> ELSE data

\* return res.json(data)
SizeCheckBody(data) == data

SizeCheckReceive ==
  \E q \in Offered :
    /\ q.handler = "sizecheck"
    /\ Begin(q)
    /\ calls' = <<DataCall>>
    /\ pc' = "sc_data"
    /\ resp' = NoResp

\* getData() settles with some data, or fails (not caught).  `snap` keeps
\* the handler's local `data`.
SizeCheckRespond ==
  /\ pc = "sc_data"
  /\ \E ok \in BOOLEAN, data \in Payloads :
       IF ok
       THEN /\ snap' = data
            /\ console' = CheckResponseSize(data)
            /\ resp' = Json(200, SizeCheckBody(data))
       ELSE /\ resp' = Rejected
            /\ UNCHANGED <<snap, console>>
  /\ pc' = "done"
  /\ UNCHANGED calls
  /\ Frame

\* ---------------------------------- Approach 1: Pagination (handler)
\* the payload guide, section 5, Approach 1
\* Mutant of Approach1HasMore: more whenever the page is not empty.
Approach1HasMoreAny(docs, q) == Len(docs) > 0

\* snapshot.size === parseInt(limit)
Approach1HasMore(docs, q) == StrictEq(Num(Len(docs)), ParseIntQ(q.limit, DefaultLimit))

\* offset = (page - 1) * limit, both coerced to numbers; .limit(parseInt(limit))
Approach1Query(q) ==
  LET offset == Mul(Sub(ToNumberQ(q.page, DefaultPage), Num(1)),
                    ToNumberQ(q.limit, DefaultLimit))
  IN Query({}, "name", ParseIntQ(q.limit, DefaultLimit), offset, NoAfter)

Approach1Body(docs, q) ==
  [items |-> [k \in 1..Len(docs) |-> DataOnly(docs[k])],
   page |-> ParseIntQ(q.page, DefaultPage),
   hasMore |-> Approach1HasMore(docs, q)]

Approach1Receive ==
  \E q \in Offered :
    /\ q.handler = "approach1"
    /\ Begin(q)
    /\ calls' = <<Approach1Query(q)>>
    /\ pc' = "a1_page"
    /\ resp' = NoResp

Approach1Respond ==
  /\ pc = "a1_page"
  /\ \E ok \in BOOLEAN :
       resp' = IF ok /\ ValidQuery(Last(calls))
               THEN Json(200, Approach1Body(RunQuery(db, Last(calls)), req))
               ELSE Rejected
  /\ pc' = "done"
  /\ UNCHANGED <<calls, snap, console>>
  /\ Frame

\* ------------------------------------------- handler_streaming_example
\* example-fixes.js:243-261
\* What res.write was given, one chunk per call.
ChunkOpen == [t |-> "["]
ChunkComma == [t |-> ","]
ChunkClose == [t |-> "]"]
\* JSON.stringify(doc.data())
ChunkItem(doc) == [t |-> "json", v |-> doc.data]

\* The response under way: the headers are out with status 200 and `body`
\* holds the chunks written so far; it is "streamed" once res.end() ran and
\* "aborted" when the handler's promise rejected before that.
Streaming(chunks) == [kind |-> "streaming", status |-> 200, body |-> chunks]
Streamed(chunks) == [kind |-> "streamed", status |-> 200, body |-> chunks]
Aborted(chunks) == [kind |-> "aborted", status |-> 200, body |-> chunks]

\* Mutant of StreamItems: a comma after every item.
StreamItemsCommaAfter(docs) ==
  [k \in 1..(2 * Len(docs)) |->
     IF k % 2 = 1 THEN ChunkItem(docs[(k + 1) \div 2]) ELSE ChunkComma]

\* The chunks of the loop over snapshot.docs: a comma before every item but
\* the first.
StreamItems(docs) ==
  [k \in 1..(IF Len(docs) = 0 THEN 0 ELSE 2 * Len(docs) - 1) |->
     IF k % 2 = 1 THEN ChunkItem(docs[(k + 1) \div 2]) ELSE ChunkComma]

\* res.write('[') runs before the collection is read.
StreamingReceive ==
  \E q \in Offered :
    /\ q.handler = "streaming"
    /\ Begin(q)
    /\ calls' = <<CountQuery({})>>
    /\ pc' = "st_all"
    /\ resp' = Streaming(<<ChunkOpen>>)

\* The get() of the whole collection settles; a failure is not caught.
StreamingRespond ==
  /\ pc = "st_all"
  /\ \E ok \in BOOLEAN :
       resp' = IF ok
               THEN Streamed(resp.body \o StreamItems(RunQuery(db, Last(calls)))
                               \o <<ChunkClose>>)
               ELSE Aborted(resp.body)
  /\ pc' = "done"
  /\ UNCHANGED <<calls, snap, console>>
  /\ Frame

\* ----------------------------- the complete Pages Router example (handler)
\* example-fixes.js:554-574
\* createItem(req.body): the other data call of the route.
CreateCall ==
  [kind |-> "create", filters |-> {}, order |-> "name", hasLimit |-> FALSE,
   limit |-> Num(0), offset |-> Num(0), after |-> NoAfter, id |-> 0]

\* What getData() and createItem() give, and the messages of the errors
\* they throw.
PagesData == {<<>>, <<Chars(3, 0, 0)>>}
CreatedItems == {[id |-> 1, name |-> "ring"]}
ErrorMessages == {"unavailable", "invalid item"}

PagesListed(data) == Json(200, [items |-> data])
PagesListFailed(message) == Json(500, [error |-> message])
\* Mutant of PagesCreated: the result is returned as it is, not through res.json.
PagesCreatedRaw(result) == [kind |-> "raw", status |-> 0, body |-> result]
PagesCreated(result) == Json(201, [item |-> result])
PagesCreateFailed(message) == Json(400, [error |-> message])

PagesRouterReceive ==
  \E q \in Offered :
    /\ q.handler = "pages"
    /\ Begin(q)
    /\ CASE q.method = "GET" ->
              calls' = <<DataCall>> /\ pc' = "pg_get" /\ resp' = NoResp
         [] q.method = "POST" ->
              calls' = <<CreateCall>> /\ pc' = "pg_post" /\ resp' = NoResp
         [] OTHER ->
              calls' = <<>> /\ pc' = "done" /\ resp' = MethodNotAllowed

\* getData() settles, or throws an error that is caught.
PagesRouterGet ==
  /\ pc = "pg_get"
  /\ \/ \E data \in PagesData : resp' = PagesListed(data)
     \/ \E message \in ErrorMessages : resp' = PagesListFailed(message)
  /\ pc' = "done"
  /\ UNCHANGED <<calls, snap, console>>
  /\ Frame

\* createItem(req.body) settles, or throws an error that is caught.
PagesRouterPost ==
  /\ pc = "pg_post"
  /\ \/ \E result \in CreatedItems : resp' = PagesCreated(result)
     \/ \E message \in ErrorMessages : resp' = PagesCreateFailed(message)
  /\ pc' = "done"
  /\ UNCHANGED <<calls, snap, console>>
  /\ Frame

\* ------------------------------------------------------ the other clients
\* Another client adds a document or rewrites one while a handler awaits the
\* source (a write between two requests of the client is the same as one
\* during the first).  The 120-document collection of the scenario is left
\* alone, and so is the collection two clients read at the same time.
Write ==
  /\ writes < MaxWrites
  /\ Len(db) <= MaxDocs
  /\ pc \notin {"idle", "done"}
  /\ mode # "pair"
  /\ \E k \in DocKinds :
       \/ /\ Len(db) < MaxDocs
          /\ db' = Append(db, k)
       \/ \E i \in DOMAIN db :
            /\ db[i] # k
            /\ db' = [db EXCEPT ![i] = k]
  /\ writes' = writes + 1
  /\ UNCHANGED <<req, pc, calls, snap, resp, console, mode, first, acc, wpage, peer>>

\* ------------------------------------------------------------- the client
\* The client sends the request it was just answered once more.
ClientRepeat ==
  /\ mode = "free"
  /\ pc = "done"
  /\ mode' = "repeat"
  /\ first' = [kind |-> resp.kind, status |-> resp.status, body |-> resp.body,
               console |-> console]
  /\ pc' = "idle"
  /\ UNCHANGED <<db, writes, req, calls, snap, resp, console, acc, wpage, peer>>

\* The client starts fetching page 1, 2, 3, ... of a listing with a fixed page
\* size and fixed filters.
WalkRequests ==
  {[q EXCEPT !.page = Str(<<"1">>)] :
     q \in {r \in Good1Requests \cup CompleteRequests :
              /\ r.method = "GET"
              /\ r.page = Absent
              /\ r.limit \in {Absent, Str(<<"1">>), Str(<<"2">>)}}}

\* On the 120-document collection the client walks with the default page size.
ClientWalk ==
  /\ mode = "free"
  /\ pc = "idle"
  /\ \E q \in WalkRequests :
       /\ Len(db) > MaxDocs => q.limit = Absent
       /\ req' = q
  /\ mode' = "walk"
  /\ wpage' = 1
  /\ UNCHANGED <<db, writes, pc, calls, snap, resp, console, first, acc, peer>>

HasMoreOf(r) ==
  IF req.handler = "good1" THEN r.body.hasMore ELSE r.body.pagination.hasMore

ItemIds(r) == [k \in 1..Len(r.body.items) |-> r.body.items[k].id]

\* The client takes a page of its walk: it keeps the items and asks for the
\* next page while hasMore is true; the walk ends there otherwise, and on a
\* failure.
ClientTakePage ==
  /\ mode = "walk"
  /\ pc = "done"
  /\ pc' = "idle"
  /\ IF resp.kind = "json" /\ resp.status = 200
     THEN /\ acc' = acc \o ItemIds(resp)
          /\ IF HasMoreOf(resp)
             THEN mode' = "walk" /\ wpage' = wpage + 1
             ELSE mode' = "walked" /\ UNCHANGED wpage
     ELSE /\ mode' = "walked"
          /\ UNCHANGED <<acc, wpage>>
  /\ UNCHANGED <<db, writes, req, calls, snap, resp, console, first, peer>>

\* The client starts a traversal by cursor: no cursor first, then the
\* nextCursor of each answer, with a fixed page size.
CursorWalkRequests ==
  {q \in CursorRequests : ~q.cursor.given /\ q.page = Absent}

\* On the 120-document collection the client walks with the default page size.
ClientCursorWalk ==
  /\ mode = "free"
  /\ pc = "idle"
  /\ \E q \in CursorWalkRequests :
       /\ Len(db) > MaxDocs => q.limit = Absent
       /\ req' = q
  /\ mode' = "cursorwalk"
  /\ UNCHANGED <<db, writes, pc, calls, snap, resp, console, first, acc, wpage, peer>>

\* The client takes a page of its traversal: it keeps the items and asks for
\* the page after nextCursor; the traversal ends when nextCursor is null, and
\* on a failure.
ClientTakeCursorPage ==
  /\ mode = "cursorwalk"
  /\ pc = "done"
  /\ pc' = "idle"
  /\ IF resp.kind = "json" /\ resp.status = 200
     THEN /\ acc' = acc \o resp.body.items
          /\ IF resp.body.nextCursor.given
             THEN mode' = "cursorwalk" /\ req' = [req EXCEPT !.cursor = resp.body.nextCursor]
             ELSE mode' = "cursorwalked" /\ UNCHANGED req
     ELSE /\ mode' = "cursorwalked"
          /\ UNCHANGED <<acc, req>>
  /\ UNCHANGED <<db, writes, calls, snap, resp, console, first, wpage, peer>>

\* The client is done with an exchange, a repetition or a walk; the two
\* clients of a pair are done when both were answered.
ClientReset ==
  /\ \/ mode \in {"free", "repeat"} /\ pc = "done"
     \/ mode \in {"walked", "cursorwalked"}
     \/ mode = "pair" /\ pc = "done" /\ peer.pc = "done"
  /\ mode' = "free"
  /\ first' = NoResp
  /\ acc' = <<>>
  /\ wpage' = 0
  /\ pc' = "idle"
  /\ req' = NoRequest
  /\ calls' = <<>>
  /\ resp' = NoResp
  /\ console' = Quiet
  /\ writes' = 0
  /\ snap' = <<>>
  /\ peer' = NoPeer
  /\ UNCHANGED db

\* ------------------------------------------------- two clients at once
\* A second client sends a request of its own; the route serves it in a
\* second invocation of the handler, whose steps interleave with those of
\* the first.  Each invocation has its own locals; the collection and the
\* console are the process's.
ClientPair ==
  /\ mode = "free"
  /\ pc = "idle"
  /\ \E q \in PairRequests : peer' = [NoPeer EXCEPT !.req = q, !.pc = "sent"]
  /\ mode' = "pair"
  /\ UNCHANGED <<db, writes, req, pc, calls, snap, resp, console, first, acc, wpage>>

\* The part of the state no step of the second invocation touches.
PeerFrame == UNCHANGED <<db, writes, req, pc, calls, snap, resp, mode, first, acc, wpage>>

PeerReceive ==
  /\ peer.pc = "sent"
  /\ peer' = IF peer.req.handler = "good1"
             THEN [peer EXCEPT !.calls = <<Good1Query(peer.req)>>, !.pc = "g1_page"]
             ELSE [peer EXCEPT !.calls = <<CompleteQuery(peer.req)>>, !.pc = "c_page"]
  /\ UNCHANGED console
  /\ PeerFrame

PeerGood1Respond ==
  /\ peer.pc = "g1_page"
  /\ \E ok \in BOOLEAN :
       peer' = [peer EXCEPT
                  !.resp = IF ok /\ ValidQuery(Last(peer.calls))
                           THEN Json(200, Good1Body(RunQuery(db, Last(peer.calls)),
                                                    peer.req))
                           ELSE Rejected,
                  !.pc = "done"]
  /\ UNCHANGED console
  /\ PeerFrame

PeerCompletePage ==
  /\ peer.pc = "c_page"
  /\ \E ok \in BOOLEAN :
       IF ok /\ ValidQuery(Last(peer.calls))
       THEN /\ peer' = [peer EXCEPT
                          !.snap = RunQuery(db, Last(peer.calls)),
                          !.calls = Append(peer.calls, CompleteTotalQuery(peer.req)),
                          !.pc = "c_count"]
            /\ UNCHANGED console
       ELSE /\ peer' = [peer EXCEPT !.resp = InternalError, !.pc = "done"]
            /\ console' = [console EXCEPT !.errors = @ + 1]
  /\ PeerFrame

\* Mutant of PeerCompleteCount: `items` is a module-level variable, so the
\* items answered are those the other invocation holds.
PeerCompleteCountSharing ==
  /\ peer.pc = "c_count"
  /\ \E ok \in BOOLEAN :
       IF ok
       THEN /\ peer' = [peer EXCEPT
                          !.resp = Json(200, CompleteBody(snap,
                                      Len(RunQuery(db, Last(peer.calls))), peer.req)),
                          !.snap = <<>>,
                          !.pc = "done"]
            /\ UNCHANGED console
       ELSE /\ peer' = [peer EXCEPT !.resp = InternalError, !.snap = <<>>, !.pc = "done"]
            /\ console' = [console EXCEPT !.errors = @ + 1]
  /\ PeerFrame

PeerCompleteCount ==
  /\ peer.pc = "c_count"
  /\ \E ok \in BOOLEAN :
       IF ok
       THEN /\ peer' = [peer EXCEPT
                          !.resp = Json(200, CompleteBody(peer.snap,
                                      Len(RunQuery(db, Last(peer.calls))), peer.req)),
                          !.snap = <<>>,
                          !.pc = "done"]
            /\ UNCHANGED console
       ELSE /\ peer' = [peer EXCEPT !.resp = InternalError, !.snap = <<>>, !.pc = "done"]
            /\ console' = [console EXCEPT !.errors = @ + 1]
  /\ PeerFrame

\* ------------------------------------------------------ the specification
Next ==
  \/ Good1Receive \/ Good1Respond
  \/ Good2Receive \/ Good2Respond
  \/ Good3Receive \/ Good3Respond
  \/ CompleteReceive \/ CompletePage \/ CompleteCount
  \/ CursorReceive \/ CursorDoc \/ CursorPage
  \/ SizeCheckReceive \/ SizeCheckRespond
  \/ Approach1Receive \/ Approach1Respond
  \/ StreamingReceive \/ StreamingRespond
  \/ PagesRouterReceive \/ PagesRouterGet \/ PagesRouterPost
  \/ Write
  \/ ClientRepeat \/ ClientWalk \/ ClientTakePage \/ ClientReset
  \/ ClientCursorWalk \/ ClientTakeCursorPage
  \/ ClientPair \/ PeerReceive \/ PeerGood1Respond \/ PeerCompletePage
  \/ PeerCompleteCount

Spec == Init /\ [][Next]_vars

\* ================================================================ claims
\* What the formulas below read off a state.
Served == pc = "done"
Ok200 == resp.kind = "json" /\ resp.status = 200
Unchanged == writes = 0

PageSize(q) == ParseIntQ(q.limit, DefaultLimit)
PageNo(q) == ParseIntQ(q.page, DefaultPage)

\* page >= 1 and pageSize >= 1, both plain integers.
ValidPageRequest(q) ==
  /\ ~PageNo(q).nan /\ PageNo(q).n >= 1
  /\ ToNumberQ(q.page, DefaultPage) = PageNo(q)
  /\ ~PageSize(q).nan /\ PageSize(q).n >= 1

\* The page query a handler builds for request q.
PageQuery(q) ==
  CASE q.handler = "good1" -> Good1Query(q)
    [] q.handler = "good2" -> Good2Query(q)
    [] q.handler = "good3" -> Good3Query(q)
    [] q.handler = "complete" -> CompleteQuery(q)
    [] q.handler = "approach1" -> Approach1Query(q)
    [] OTHER -> CursorQuery(q, NoAfter)

\* The ids of the records matching the filters of q, in the handler's order.
MatchingIds(q) == Ordered(db, PageQuery(q))

\* The page after the one q asks for would hold at least one item.
NextPageNonEmpty(q) ==
  Len(RunQuery(db, PageQuery([q EXCEPT !.page = Str(IntToStr(PageNo(q).n + 1))]))) > 0

Paginated == {"good1", "good2", "good3", "complete", "cursor"}
OffsetPaged == {"good1", "complete"}

\* ---------------------------------------------------------------- C1
\* C1: for every valid page request and every collection, a paginated fetch
\* returns at most pageSize items.
C1_AtMostPageSize ==
  (Served /\ Ok200 /\ req.handler \in Paginated /\ ValidPageRequest(req))
    => Len(resp.body.items) <= PageSize(req).n

\* A full page served from a collection holding more documents than the page.
C1_Witness ==
  /\ Served /\ Ok200 /\ req.handler = "good1" /\ ValidPageRequest(req)
  /\ Len(resp.body.items) = PageSize(req).n
  /\ Len(db) > PageSize(req).n

\* ---------------------------------------------------------------- C2
ProjectionOf(h) == IF h = "good2" THEN Good2Fields ELSE CompleteFields

ExcludedFields == {"base64Image", "fullDescription", "pdfData"}

\* C3: no item returned by handler_good_example_1, _2, _3 or the complete
\* handler holds an excluded field (base64Image, fullDescription, pdfData).
C3_NoExcludedFields ==
  (Served /\ Ok200 /\ req.handler \in {"good1", "good2", "good3", "complete"})
    => \A k \in 1..Len(resp.body.items) :
         DOMAIN resp.body.items[k] \cap ExcludedFields = {}

\* ---------------------------------------------------------------- C4
HasMore == IF req.handler = "good1" THEN resp.body.hasMore
           ELSE resp.body.pagination.hasMore

OffsetPageServed ==
  Served /\ Ok200 /\ Unchanged /\ req.handler \in OffsetPaged /\ ValidPageRequest(req)

\* C4 as claimed: on an unchanged collection, hasMore is true if and only if
\* the next page would hold at least one item.
C4_HasMoreExact == OffsetPageServed => (HasMore <=> NextPageNonEmpty(req))

\* C4 as amended: on an unchanged collection, hasMore is true whenever the
\* next page would hold at least one item (hasMore = false means the next
\* page is empty).
C4_HasMoreCoversNextPage == OffsetPageServed => (NextPageNonEmpty(req) => HasMore)

C4_Witness == OffsetPageServed /\ NextPageNonEmpty(req) /\ HasMore

\* ---------------------------------------------------------------- C5
WalkEnded == mode = "walked" /\ Ok200 /\ Unchanged

C6_SameRequestSameResult ==
  (mode = "repeat" /\ Served /\ Unchanged /\ req.handler \in Paginated
     /\ first.kind = "json" /\ first.status = 200 /\ Ok200)
    => resp.body = first.body

\* The second of two identical fetches answered with a non-empty page.
C6_Witness ==
  /\ mode = "repeat" /\ Served /\ Unchanged /\ req.handler = "complete"
  /\ first.kind = "json" /\ first.status = 200 /\ Ok200
  /\ Len(resp.body.items) > 0

\* ---------------------------------------------------------------- C7
\* C7: with pageSize 50 and exactly 120 matching records, page 1 returns 50
\* items with hasMore = true and page 3 returns 20 items with hasMore = false.
C7_Scenario120 ==
  (OffsetPageServed /\ PageSize(req).n = 50 /\ Len(MatchingIds(req)) = 120) =>
    /\ PageNo(req).n = 1 => (Len(resp.body.items) = 50 /\ HasMore)
    /\ PageNo(req).n = 3 => (Len(resp.body.items) = 20 /\ ~HasMore)

\* Page 3 of the scenario served, after pages 1 and 2.
C7_Witness ==
  /\ OffsetPageServed /\ PageSize(req).n = 50 /\ Len(MatchingIds(req)) = 120
  /\ mode = "walk" /\ PageNo(req).n = 3 /\ Len(acc) = 100
  /\ Len(resp.body.items) = 20

\* ---------------------------------------------------------------- C8
\* C8: a fetch whose pageSize exceeds the cap of 200 fails with
\* InvalidRequest and never queries the source with a limit above the cap.
C8_OverCapRejected ==
  /\ \A k \in 1..Len(calls) :
       (calls[k].hasLimit /\ ~calls[k].limit.nan) => calls[k].limit.n <= 200
  /\ (Served /\ req.handler \in Paginated /\ ~PageSize(req).nan /\ PageSize(req).n > 200)
       => (resp.kind = "json" /\ resp.status = 400)

\* ---------------------------------------------------------------- C9
\* A non-positive page or pageSize, or page and cursor together.
InvalidPageRequest(q) ==
  \/ ~PageNo(q).nan /\ PageNo(q).n <= 0
  \/ ~PageSize(q).nan /\ PageSize(q).n <= 0
  \/ q.page.given /\ q.cursor.given

\* C9: such a request is rejected with InvalidRequest before any query
\* reaches the source.
C9_InvalidRejectedUnqueried ==
  (req.handler \in Paginated /\ InvalidPageRequest(req)) =>
    /\ calls = <<>>
    /\ Served => (resp.kind = "json" /\ resp.status = 400)

\* ---------------------------------------------------------------- C10
\* C10: the size check reports the threshold as exceeded for a payload whose
\* serialised UTF-8 size is 5,000,000 bytes.
C10_FiveMillionExceeds ==
  /\ ByteLength(JsonStringify(OneString(4999996))) = 5000000
  /\ (Served /\ Ok200 /\ req.handler = "sizecheck" /\ resp.body = OneString(4999996))
       => console.warned

C10_Witness ==
  /\ Served /\ Ok200 /\ req.handler = "sizecheck"
  /\ resp.body = OneString(4999996)
  /\ console.warned /\ console.logged = 477

\* --------------------------------------------------------------- C11
\* The size check ran in the exchange just served.
SizeChecked == Served /\ req.handler = "sizecheck" /\ console.logged >= 0

\* C11: the size check reports exceeded exactly for the payloads whose
\* serialised size is above 4,500,000 bytes, which leaves headroom under the
\* hard ceiling of 4,718,592 bytes.
C11_ExceededAbove4500000 ==
  SizeChecked => (console.warned <=> SizeInBytes(snap) > 4500000)

\* --------------------------------------------------------------- C12
\* Records a result may be extended by.
MoreItems == {Chars(0, 0, 0), Chars(3, 0, 0), Chars(1, 1, 1)}

\* C12: appending any record to the items of a result never decreases the
\* byte size the size check computes.
C12_AppendNeverShrinks ==
  SizeChecked =>
    /\ \A c \in MoreItems : SizeInBytes(Append(snap, c)) >= SizeInBytes(snap)
    /\ \A k \in 0..Len(snap) : SizeInBytes(SubSeq(snap, 1, k)) <= SizeInBytes(snap)

\* Data of two items was checked, the second smaller than the first.
C12_Witness ==
  /\ SizeChecked /\ Len(snap) = 2
  /\ SizeInBytes(<<snap[2]>>) < SizeInBytes(<<snap[1]>>)
  /\ SizeInBytes(snap) > SizeInBytes(<<snap[1]>>)

\* --------------------------------------------------------------- C13
\* The second of two identical size-check exchanges, both given the same data.
SizeCheckedTwice ==
  /\ SizeChecked /\ mode = "repeat"
  /\ first.kind = "json" /\ first.body = snap

C14_AdvisoryOnly ==
  SizeChecked => resp = Json(200, snap)

\* Data over the threshold was answered whole.
C14_Witness ==
  /\ SizeChecked /\ console.warned
  /\ resp.kind = "json" /\ resp.status = 200 /\ resp.body = OneString(4999996)

\* --------------------------------------------------------------- C15
\* C15: when a source call of a paginated fetch fails, the caller gets the
\* original error: a GET that does not end with a result ends with the error
\* the source threw, not with another error or message.
C15_SourceFailureUnchanged ==
  (Served /\ req.handler \in Paginated /\ req.method = "GET" /\ ~Ok200)
    => resp = Rejected

\* --------------------------------------------------------------- C16
\* A complete result: a 200 answer, or a stream that was ended.
CompleteResult == Ok200 \/ resp.kind = "streamed"

\* C16: no partial result is returned; an export that does not end with a
\* complete result has given the caller no item and no part of the body.
C16_NoPartialResult ==
  (Served /\ req.handler \in Paginated \cup {"streaming"} /\ ~CompleteResult) =>
    /\ resp.kind \in {"json", "rejected"}
    /\ resp.kind = "rejected" => resp.body = <<>>
    /\ resp.kind = "json" => "items" \notin DOMAIN resp.body

\* --------------------------------------------------------------- C17
\* What the handler answers to q when nothing else runs: its page query and
\* its total query read the collection as it is.
AloneBody(q) ==
  IF q.handler = "good1"
  THEN Good1Body(RunQuery(db, Good1Query(q)), q)
  ELSE CompleteBody(RunQuery(db, CompleteQuery(q)),
                    Len(RunQuery(db, CompleteTotalQuery(q))), q)

\* C17: two paginated requests served at the same time over an unchanged
\* collection are each answered as they would be alone, whatever the
\* interleaving of their handlers' steps.
C17_ConcurrentIndependent ==
  (mode = "pair" /\ Unchanged) =>
    /\ (Served /\ Ok200) => resp.body = AloneBody(req)
    /\ (peer.pc = "done" /\ peer.resp.kind = "json" /\ peer.resp.status = 200)
         => peer.resp.body = AloneBody(peer.req)

\* Both answered, with different pages of the complete handler; the second
\* invocation fetched its page before the first one's answer was out.
C17_Witness ==
  /\ mode = "pair" /\ Unchanged /\ Served /\ Ok200
  /\ peer.pc = "done" /\ peer.resp.kind = "json" /\ peer.resp.status = 200
  /\ req.handler = "complete" /\ peer.req.handler = "complete"
  /\ Len(resp.body.items) = 1 /\ Len(peer.resp.body.items) = 1
  /\ resp.body.items # peer.resp.body.items

\* --------------------------------------------------------------- C18
\* C18: whatever the method and whatever the data call does, the Pages
\* Router handler answers through res.json: GET 200 on success and 500 on
\* failure, POST 201 on success and 400 on failure, 405 for any other method.
C18_AlwaysSerialized ==
  (Served /\ req.handler = "pages") =>
    /\ resp.kind = "json"
    /\ req.method = "GET" =>
         \/ resp.status = 200 /\ DOMAIN resp.body = {"items"}
         \/ resp.status = 500 /\ DOMAIN resp.body = {"error"}
                               /\ resp.body.error \in ErrorMessages
    /\ req.method = "POST" =>
         \/ resp.status = 201 /\ DOMAIN resp.body = {"item"}
         \/ resp.status = 400 /\ DOMAIN resp.body = {"error"}
                               /\ resp.body.error \in ErrorMessages
    /\ req.method \notin {"GET", "POST"} =>
         resp.status = 405 /\ resp.body = [error |-> "Method not allowed"]

\* A POST whose createItem succeeded, answered 201.
C18_Witness ==
  /\ Served /\ req.handler = "pages" /\ req.method = "POST"
  /\ resp.kind = "json" /\ resp.status = 201 /\ resp.body.item \in CreatedItems

\* --------------------------------------------------------------- C19
OffsetMode == {"good1", "complete", "approach1"}

\* C19: the items of page p are the records at positions (p-1)*pageSize + 1
\* through min(p*pageSize, N) of the N ordered matching records, and none
\* when (p-1)*pageSize >= N.
C19_OffsetWindow ==
  (Served /\ Ok200 /\ Unchanged /\ req.handler \in OffsetMode /\ ValidPageRequest(req)) =>
    LET ids == MatchingIds(req)
        N == Len(ids)
        lo == (PageNo(req).n - 1) * PageSize(req).n + 1
        hi == Min(PageNo(req).n * PageSize(req).n, N)
        items == resp.body.items
    IN /\ Len(items) = IF lo > N THEN 0 ELSE hi - lo + 1
       /\ \A k \in 1..Len(items) :
            IF req.handler = "approach1"
            THEN items[k] = db[ids[lo + k - 1]]
            ELSE items[k].id = ids[lo + k - 1]

\* Page 2 of the complete handler with one record a page: the second of the
\* matching records in descending order, of ids 3 and 1.
C19_Witness ==
  /\ Served /\ Ok200 /\ Unchanged /\ req.handler = "complete"
  /\ PageNo(req).n = 2 /\ PageSize(req).n = 1
  /\ MatchingIds(req) = <<3, 1>>
  /\ Len(resp.body.items) = 1 /\ resp.body.items[1].id = 1

\* --------------------------------------------------------------- C20
CountHeuristic == {"good1", "approach1"}

\* C20: hasMore is true exactly when as many items were fetched as pageSize;
\* so the last non-empty page reports hasMore = true when the matching count
\* is a positive multiple of pageSize.
C20_HasMoreIffFullPage ==
  (Served /\ Ok200 /\ req.handler \in CountHeuristic /\ ~PageSize(req).nan) =>
    /\ resp.body.hasMore <=> Len(resp.body.items) = PageSize(req).n
    /\ (/\ Unchanged /\ ValidPageRequest(req)
        /\ Len(MatchingIds(req)) = PageNo(req).n * PageSize(req).n)
         => resp.body.hasMore

\* The only page of two records, two a page: hasMore is true, and nothing
\* follows.
C20_Witness ==
  /\ Served /\ Ok200 /\ Unchanged /\ req.handler = "approach1"
  /\ PageNo(req).n = 1 /\ PageSize(req).n = 2 /\ Len(db) = 2
  /\ resp.body.hasMore /\ ~NextPageNonEmpty(req)

\* --------------------------------------------------------------- C21
\* The equality filters a request supplies: the status (given or by default
\* 'active') and, when one is given, the category.
SuppliedFilters(q) ==
  {<<"status", IF q.status.given /\ q.status.s # "" THEN q.status.s ELSE "active">>}
    \cup (IF q.category.given /\ q.category.s # ""
          THEN {<<"category", q.category.s>>} ELSE {})

\* C21: every query sent to the source carries all the supplied filters
\* together with the limit, and every returned item satisfies every supplied
\* filter; no unfiltered records are fetched.
C21_FiltersPushedDown ==
  req.handler \in {"good3", "complete"} =>
    /\ \A k \in 1..Len(calls) :
         calls[k].kind = "query" =>
           (calls[k].filters = SuppliedFilters(req) /\ calls[k].hasLimit)
    /\ (Served /\ Ok200 /\ Unchanged) =>
         \A k \in 1..Len(resp.body.items) :
           IF req.handler = "good3"
           THEN Matches(resp.body.items[k], SuppliedFilters(req))
           ELSE Matches(db[resp.body.items[k].id], SuppliedFilters(req))

\* --------------------------------------------------------------- C22
CountCalls == {k \in 1..Len(calls) : calls[k].kind = "query" /\ ~calls[k].hasLimit}
SliceCalls == {k \in 1..Len(calls) : calls[k].kind = "query" /\ calls[k].hasLimit}

\* C22: a paginated fetch sends the source at most one count query and at
\* most one slice or cursor fetch, the count only after the slice, and sends
\* no call a second time (no retry after a failure).
C22_OneCountOneSliceNoRetry ==
  req.handler \in Paginated =>
    /\ Cardinality(CountCalls) <= 1
    /\ Cardinality(SliceCalls) <= 1
    /\ \A j \in CountCalls, k \in SliceCalls : k < j
    /\ \A j, k \in 1..Len(calls) : j < k => calls[j] # calls[k]
    /\ (Served /\ ~Ok200) => Len(calls) <= 2

\* The count query failed after the page query had succeeded, and the
\* exchange ended there.
C22_Witness ==
  /\ Served /\ req.handler = "complete" /\ resp = InternalError
  /\ Cardinality(SliceCalls) = 1 /\ Cardinality(CountCalls) = 1

\* --------------------------------------------------------------- C23
\* The ids of the page a cursor request asks for: the first pageSize of the
\* ordered records that come after the cursor's record.
CursorPageIds(q) ==
  LET all == Ordered(db, CursorQuery(q, NoAfter))
      pos == IF q.cursor.given
             THEN CHOOSE i \in 1..Len(all) : all[i] = q.cursor.id
             ELSE 0
      rest == SubSeq(all, pos + 1, Len(all))
  IN SubSeq(rest, 1, Min(PageSize(q).n, Len(rest)))

\* C23: in cursor mode the page holds only records after the supplied cursor
\* in the order, and nextCursor is the id of the last record of the page,
\* null when the page is empty.
C23_CursorEcho ==
  (Served /\ Ok200 /\ Unchanged /\ req.handler = "cursor") =>
    LET page == CursorPageIds(req)
    IN /\ resp.body.items = [k \in 1..Len(page) |-> db[page[k]]]
       /\ resp.body.nextCursor =
            IF Len(page) = 0 THEN NoCursor ELSE [given |-> TRUE, id |-> Last(page)]

\* The page after record 1, one record a page, of records 1 and 3.
C23_Witness ==
  /\ Served /\ Ok200 /\ Unchanged /\ req.handler = "cursor"
  /\ req.cursor = [given |-> TRUE, id |-> 1]
  /\ Len(resp.body.items) = 1
  /\ resp.body.nextCursor = [given |-> TRUE, id |-> 3]

\* --------------------------------------------------------------- C24
\* C24: the complete handler answers a request whose method is not GET with
\* status 405, and sends the source no query for it.
C24_NonGetRejected ==
  (req.handler = "complete" /\ req.method # "GET") =>
    /\ calls = <<>>
    /\ pc \in {"idle", "done"}
    /\ Served => (resp.kind = "json" /\ resp.status = 405)

C24_Witness ==
  /\ Served /\ req.handler = "complete" /\ req.method = "POST"
  /\ resp = Json(405, [error |-> "Method not allowed"]) /\ calls = <<>>

\* --------------------------------------------------------------- C25
\* C25: shortDescription is the prefix of the record's description of length
\* min(200, length of the description); a record without description has no
\* shortDescription and is projected all the same.
C25_ShortDescriptionPrefix ==
  (Served /\ Ok200 /\ Unchanged /\ req.handler = "good2") =>
    \A k \in 1..Len(resp.body.items) :
      LET item == resp.body.items[k]
          data == db[item.id]
      IN IF "description" \in DOMAIN data
         THEN item.shortDescription =
                [src |-> data.description.src, from |-> 0,
                 to |-> Min(200, data.description.to - data.description.from)]
         ELSE "shortDescription" \notin DOMAIN item

\* A description of 201 characters cut to 200, next to a record without one.
C25_Witness ==
  /\ Served /\ Ok200 /\ Unchanged /\ req.handler = "good2"
  /\ \E j, k \in 1..Len(resp.body.items) :
       /\ "description" \in DOMAIN db[resp.body.items[j].id]
       /\ db[resp.body.items[j].id].description = [src |-> "long", from |-> 0, to |-> 201]
       /\ resp.body.items[j].shortDescription = [src |-> "long", from |-> 0, to |-> 200]
       /\ "description" \notin DOMAIN db[resp.body.items[k].id]

\* --------------------------------------------------------------- C26
\* C26: pagination.total is the number of records matching the filters that
\* select the items (status and, when supplied, category).
C26_TotalCountsSameFilters ==
  (Served /\ Ok200 /\ Unchanged /\ req.handler = "complete") =>
    resp.body.pagination.total =
      Cardinality({i \in DOMAIN db : Matches(db[i], SuppliedFilters(req))})

\* --------------------------------------------------------------- C27
\* C27: for page >= 1, limit >= 1 and total >= 0, hasMore (page * limit <
\* total) holds if and only if page < totalPages, with totalPages =
\* ceil(total / limit).
C27_HasMoreIffBeforeLastPage ==
  (Served /\ Ok200 /\ req.handler = "complete" /\ ValidPageRequest(req)) =>
    LET pg == resp.body.pagination
    IN /\ ~pg.totalPages.nan
       /\ (pg.totalPages.n - 1) * pg.limit.n < pg.total \/ pg.total = 0
       /\ pg.total <= pg.totalPages.n * pg.limit.n
       /\ pg.hasMore <=> pg.page.n * pg.limit.n < pg.total
       /\ pg.hasMore <=> pg.page.n < pg.totalPages.n

\* The last page of three pages that are not all full, and a page before a
\* last page that is partly filled.
C27_Witness ==
  /\ Served /\ Ok200 /\ req.handler = "complete" /\ ValidPageRequest(req)
  /\ resp.body.pagination.total = 3 /\ resp.body.pagination.limit.n = 2
  /\ resp.body.pagination.page.n = 1 /\ resp.body.pagination.totalPages.n = 2
  /\ resp.body.pagination.hasMore

\* --------------------------------------------------------------- C28
\* C28: the streaming handler writes '[', then each document of the
\* collection in order with one ',' between two documents and none before
\* the first or after the last, then ']', and ends the response; '[]' for an
\* empty collection.
C28_WellFormedArray ==
  /\ (req.handler = "streaming" /\ pc = "st_all") =>
       (resp.kind = "streaming" /\ resp.body = <<[t |-> "["]>>)
  /\ (Served /\ req.handler = "streaming" /\ resp.kind # "aborted") =>
       LET n == Len(db)
           body == resp.body
       IN /\ resp.kind = "streamed"
          /\ Len(body) = IF n = 0 THEN 2 ELSE 2 * n + 1
          /\ body[1] = [t |-> "["]
          /\ body[Len(body)] = [t |-> "]"]
          /\ \A k \in 1..n : body[2 * k] = [t |-> "json", v |-> db[k]]
          /\ \A k \in 1..(n - 1) : body[2 * k + 1] = [t |-> ","]

\* Three documents streamed, and the response ended.
C28_Witness ==
  /\ Served /\ req.handler = "streaming" /\ resp.kind = "streamed"
  /\ Len(db) = 3 /\ Len(resp.body) = 7

\* --------------------------------------------------------------- C29
CursorWalkEnded == mode = "cursorwalked" /\ Ok200 /\ Unchanged

\* C29: on an unchanged collection the traversal by cursor, from no cursor
\* to nextCursor = null, fetches every record of the collection exactly once,
\* in order.
C29_CursorWalkCoversCollection ==
  CursorWalkEnded =>
    LET ids == MatchingIds(req)
    IN /\ Len(acc) = Len(db)
       /\ Len(ids) = Len(db)
       /\ acc = [k \in 1..Len(ids) |-> db[ids[k]]]

\* --------------------------------------------------------------- C30
\* C30: the items and the total of one answer of the complete handler
\* describe one state of the collection, also with a write between the page
\* query and the count query: without a category filter, the page holds
\* min(limit, total - offset) items of the `total` matching records.
C30_ItemsAndTotalOneState ==
  (Served /\ Ok200 /\ req.handler = "complete" /\ ValidPageRequest(req)
     /\ ~Truthy(req.category)) =>
    LET pg == resp.body.pagination
        left == pg.total - (pg.page.n - 1) * pg.limit.n
    IN Len(resp.body.items) = IF left < 0 THEN 0 ELSE Min(pg.limit.n, left)

\* The same with no write since the request was sent.
C30_ConsistentWhenUnchanged == Unchanged => C30_ItemsAndTotalOneState

====
